---- MODULE Spec2Model ----
(***************************************************************************)
(* Flow-meter backend: the reading-classification, alert-deduplication and *)
(* history-retention state machine of the two MongoDB-backed ingestion     *)
(* handlers of the repository:                                             *)
(*   - the store-backed handler (src/unnamed/part_002), which reads the    *)
(*     previous flow, timestamp and lastAlert from the "latest" document;  *)
(*   - api/update_latest/index.js, which keeps previousFlow and            *)
(*     lastSavedTime in module-level variables of the serving process.     *)
(* Both write the same "latest" document and the same history collection.  *)
(* Times are epoch milliseconds.                                           *)
(***************************************************************************)
EXTENDS Integers, FiniteSets, Sequences, TLC

VARIABLES
    deployed,   \* which of the two handlers serves the endpoint
    clock,      \* Date.now() of the environment
    latest,     \* the document {_id: "latest"} of the latest collection
    history,    \* the history collection: a set of documents, _id as id
    nextId,     \* the next ObjectId insertOne assigns
    mem,        \* module-level variables of the process serving index.js
    alerts,     \* the outbound OneSignal calls started so far
    outbound,   \* outcome of the outbound call started last
    req,        \* what the last accepted POST read and decided
    resp,       \* the last HTTP response sent
    nposts,     \* number of accepted POSTs so far
    inflight    \* the local variables of each POST run await by await

vars == <<deployed, clock, latest, history, nextId, mem, alerts, outbound,
          req, resp, nposts, inflight>>

----------------------------------------------------------------------------
\* Bounds of the model

\* Date.now() at the first request. Any real clock reading exceeds every
\* interval of the program, so "now - 0" is beyond every threshold.
StartTime == 100000

\* Number of accepted POSTs of a run.
MaxPosts == 3

\* Number of POSTs of a run that goes await by await; all of them can be
\* under way at once.
MaxStepPosts == 2

\* Time that passes between one accepted POST and the next: the 5 s poll
\* cadence, a little over 10 s, and more than a minute.
Gaps == {5000, 11000, 61000}

\* Rotation counts around the noise threshold (2), the spike limit (40)
\* and the safe threshold (120), for the runs that sweep the classifier.
Flows == {0, 1, 2, 3, 40, 41, 42, 119, 120, 121, 122, 162, 163}

----------------------------------------------------------------------------
\* Program constants

\* History capacity. The source sets 5000; the model keeps the capacity
\* small so that runs of MAX_HISTORY_DOCS + 1 appends are explored.
MAX_HISTORY_DOCS == 2

MAX_BODY_BYTES == 512
SAVE_INTERVAL_MS == 10000
SAFE_THRESHOLD == 120
SPIKE_LIMIT == 40
NOISE_THRESHOLD == 2
cooldownMs == 10000

----------------------------------------------------------------------------
\* JavaScript values

\* NaN, the result of Number() on text that is no number. Readings are
\* integers above this value; every comparison with NaN is false.
NaN == -999999

JsLt(a, b) == a # NaN /\ b # NaN /\ a < b
JsGt(a, b) == a # NaN /\ b # NaN /\ a > b
JsSub(a, b) == IF a = NaN \/ b = NaN THEN NaN ELSE a - b
\* Math.abs
JsAbs(a) == IF a = NaN THEN NaN ELSE IF a < 0 THEN -a ELSE a
\* x || 0 on a number: 0 and NaN are falsy
OrZero(x) == IF x = NaN \/ x = 0 THEN 0 ELSE x

\* A field of the parsed JSON object.
Absent == [k |-> "absent", v |-> 0]
Null == [k |-> "null", v |-> 0]
Num(n) == [k |-> "num", v |-> n]
Text == [k |-> "text", v |-> 0]

\* a ?? b
Coalesce(a, b) == IF a.k \in {"absent", "null"} THEN b ELSE a

\* Number(x)
Number(x) ==
    CASE x.k = "num" -> x.v
      [] x.k = "null" -> 0
      [] OTHER -> NaN

----------------------------------------------------------------------------
\* Pure functions of the handlers

compressReading(input) ==
    [p  |-> Number(Coalesce(input.pulses, Coalesce(input.p, Num(0)))),
     r  |-> Number(Coalesce(input.rotations, Coalesce(input.r, Num(0)))),
     la |-> Number(Coalesce(input.lat, Coalesce(input.la, Num(0)))),
     lo |-> Number(Coalesce(input.lon, Coalesce(input.lo, Num(0))))]

\* Faulty variant of AdjustedFlow: a change of exactly NOISE_THRESHOLD is
\* suppressed too.
AdjustedFlow_Inclusive(currentFlow, previousFlow) ==
    IF ~JsGt(JsAbs(JsSub(currentFlow, previousFlow)), NOISE_THRESHOLD)
    THEN previousFlow
    ELSE currentFlow

\* Faulty variant of AdjustedFlow: the comparison is turned round, so a
\* change of more than NOISE_THRESHOLD is taken for noise.
AdjustedFlow_Inverted(currentFlow, previousFlow) ==
    IF JsGt(JsAbs(JsSub(currentFlow, previousFlow)), NOISE_THRESHOLD)
    THEN previousFlow
    ELSE currentFlow

\* Noise suppression of computeStatus: the adjusted flow.
AdjustedFlow(currentFlow, previousFlow) ==
    IF JsLt(JsAbs(JsSub(currentFlow, previousFlow)), NOISE_THRESHOLD)
    THEN previousFlow
    ELSE currentFlow

\* The spike check of computeStatus.
SpikeCheck(flow, previousFlow) ==
    JsGt(JsAbs(JsSub(flow, previousFlow)), SPIKE_LIMIT)

\* Faulty variant of computeStatus: the threshold is tested on the
\* previous flow.
computeStatus_PreviousFlow(currentFlow, previousFlow) ==
    LET flow == AdjustedFlow(currentFlow, previousFlow)
        status == IF JsGt(previousFlow, SAFE_THRESHOLD)
                     \/ SpikeCheck(flow, previousFlow)
                  THEN "DANGER"
                  ELSE "SAFE"
    IN  [status |-> status, flow |-> flow]

computeStatus(currentFlow, previousFlow) ==
    LET flow == AdjustedFlow(currentFlow, previousFlow)
        status == IF JsGt(flow, SAFE_THRESHOLD) \/ SpikeCheck(flow, previousFlow)
                  THEN "DANGER"
                  ELSE "SAFE"
    IN  [status |-> status, flow |-> flow]

\* todayIST(): the calendar day in Asia/Kolkata (UTC+05:30), as a day number.
todayIST(now) == (now + 19800000) \div 86400000

\* String(s).toUpperCase() on the status texts a store can hold
ToUpperCase(s) ==
    CASE s = "danger" -> "DANGER"
      [] s = "Danger" -> "DANGER"
      [] s = "normal" -> "NORMAL"
      [] s = "safe" -> "SAFE"
      [] s = "danger " -> "DANGER "
      [] OTHER -> s

\* Faulty variant of normalizeStatus: the comparison is made without
\* toUpperCase().
normalizeStatus_CaseSensitive(s) == IF s = "DANGER" THEN "DANGER" ELSE "SAFE"

normalizeStatus(s) == IF ToUpperCase(s) = "DANGER" THEN "DANGER" ELSE "SAFE"

----------------------------------------------------------------------------
\* The store

\* findOne({_id: "latest"}) on an empty collection: no document. Reading a
\* field of it gives undefined, which "|| 0" turns into 0.
NoDoc ==
    [exists |-> FALSE, p |-> 0, r |-> 0, la |-> 0, lo |-> 0, s |-> "",
     t |-> 0, d |-> 0, hasLastAlert |-> FALSE, lastAlert |-> 0]

\* The entry both handlers build from a reading.
Entry(p, r, la, lo, s, t) ==
    [p |-> p, r |-> r, la |-> la, lo |-> lo, s |-> s, t |-> t, d |-> todayIST(t)]

\* insertOne: the entry with a fresh _id
Doc(entry, id) ==
    [id |-> id, p |-> entry.p, r |-> entry.r, la |-> entry.la, lo |-> entry.lo,
     s |-> entry.s, t |-> entry.t, d |-> entry.d]

\* Faulty variant of Oldest: the sort is descending, so the newest go.
Oldest_Newest(h, n) ==
    {S \in SUBSET h :
        /\ Cardinality(S) = n
        /\ \A x \in S : \A y \in h \ S : x.t >= y.t}

\* find({}).sort({t: 1}).limit(n): n documents none of which is newer than
\* a document left out; the order among equal t is the store's choice.
Oldest(h, n) ==
    {S \in SUBSET h :
        /\ Cardinality(S) = n
        /\ \A x \in S : \A y \in h \ S : x.t <= y.t}

\* Faulty variant of estimatedDocumentCount: the count is the one from
\* before the insert.
estimatedDocumentCount_Stale(h) == Cardinality(h) - 1

\* estimatedDocumentCount(): the collection's document count
estimatedDocumentCount(h) == Cardinality(h)

\* The trim that follows an insert: the histories it can leave.
Trim(h) ==
    LET count == estimatedDocumentCount(h)
    IN  IF count > MAX_HISTORY_DOCS
        THEN {h \ S : S \in Oldest(h, count - MAX_HISTORY_DOCS)}
        ELSE {h}

----------------------------------------------------------------------------
\* Requests

\* A JSON object with the long-form fields of a reading.
Reading(pulses, rotations, lat, lon) ==
    [pulses |-> Num(pulses), rotations |-> Num(rotations),
     lat |-> Num(lat), lon |-> Num(lon),
     p |-> Absent, r |-> Absent, la |-> Absent, lo |-> Absent]

\* A request body: its size in bytes, whether JSON.parse accepts it, and
\* the object it parses to.
Body(bytes, ok, obj) == [bytes |-> bytes, ok |-> ok, obj |-> obj]

\* The bodies of the model: a low reading, a reading above the threshold,
\* a reading one off it, bodies at and over the size limit, and malformed
\* bodies below, at and over the size limit.
Bodies ==
    { Body(60, TRUE, Reading(10, 3, 12, 77)),
      Body(60, TRUE, Reading(20, 133, 13, 78)),
      Body(60, TRUE, Reading(30, 134, 12, 78)),
      Body(512, TRUE, Reading(10, 3, 12, 77)),
      Body(513, TRUE, Reading(10, 3, 12, 77)),
      Body(60, FALSE, Reading(0, 0, 0, 0)),
      Body(512, FALSE, Reading(0, 0, 0, 0)),
      Body(513, FALSE, Reading(0, 0, 0, 0)) }

\* Module-level variables of a process that has served no request.
FreshMem == [lastSavedTime |-> 0, previousFlow |-> 0]

NoEntry == [p |-> 0, r |-> 0, la |-> 0, lo |-> 0, s |-> "", t |-> 0, d |-> 0]

NoReq ==
    [obj |-> Reading(0, 0, 0, 0), now |-> 0, prev |-> NoDoc, status |-> "",
     flow |-> 0, entry |-> NoEntry, save |-> FALSE, alert |-> FALSE,
     deleted |-> 0]

NoResp ==
    [kind |-> "none", code |-> 0, status |-> "", empty |-> TRUE, pulses |-> 0,
     rotations |-> 0, lat |-> 0, lon |-> 0, timestamp |-> 0, date |-> 0,
     list |-> <<>>]

\* The local variables of one POST: where it stands, whether another POST
\* was under way when it began, the latest document it read, what it
\* decided, and the count and the _ids its trim obtained.
NewPost ==
    [pc |-> "new", over |-> FALSE, prev |-> NoDoc,
     d |-> [status |-> "", flow |-> 0, entry |-> NoEntry, save |-> FALSE,
            alert |-> FALSE, alertTime |-> 0],
     count |-> 0, oldest |-> {}]

\* The POSTs of a run that goes await by await, in the order they begin.
Slots == 1..MaxStepPosts

NoneInFlight == [i \in Slots |-> NewPost]

Init ==
    /\ deployed \in {"store", "cached"}
    /\ clock = StartTime
    /\ latest = NoDoc
    /\ history = {}
    /\ nextId = 1
    /\ mem = FreshMem
    /\ alerts = <<>>
    /\ outbound = "none"
    /\ req = NoReq
    /\ resp = NoResp
    /\ nposts = 0
    /\ inflight = NoneInFlight

\* Faulty variant of Rejection: a body of exactly MAX_BODY_BYTES is refused
\* too.
Rejection_Inclusive(body) ==
    IF body.bytes >= MAX_BODY_BYTES THEN 413
    ELSE IF ~body.ok THEN 400
    ELSE 0

\* The body-size check and JSON.parse, the same in both handlers: the
\* status code of the rejection, 0 for a body that passes both.
Rejection(body) ==
    IF body.bytes > MAX_BODY_BYTES THEN 413
    ELSE IF ~body.ok THEN 400
    ELSE 0

\* res.status(200).json({success: true, status})
PostResponse(status) ==
    [NoResp EXCEPT !.kind = "post", !.code = 200, !.status = status]

\* Faulty variant of PostRejected: a body that fails JSON.parse is taken as
\* the empty object and written to the latest document before the error is
\* answered.
PostRejected_Applied(body) ==
    /\ Rejection(body) # 0
    /\ resp' = [NoResp EXCEPT !.kind = "rejected", !.code = Rejection(body)]
    /\ resp' # resp
    /\ latest' = IF Rejection(body) = 400
                 THEN [latest EXCEPT !.exists = TRUE, !.p = 0, !.r = 0,
                                     !.la = 0, !.lo = 0, !.s = "SAFE",
                                     !.t = clock, !.d = todayIST(clock)]
                 ELSE latest
    /\ UNCHANGED <<deployed, clock, history, nextId, mem, alerts,
                   outbound, req, nposts, inflight>>

\* A POST whose body is over the size limit or is no JSON: the handler
\* answers 413 or 400 and returns before it reads or writes the store.
PostRejected(body) ==
    /\ Rejection(body) # 0
    /\ resp' = [NoResp EXCEPT !.kind = "rejected", !.code = Rejection(body)]
    /\ resp' # resp
    /\ UNCHANGED <<deployed, clock, latest, history, nextId, mem, alerts,
                   outbound, req, nposts, inflight>>

\* compressReading(data) on a body that parses to the JSON value null
\* instead of an object: reading input.pulses throws a TypeError.
Raises(input) == "k" \in DOMAIN input /\ input.k = "null"

\* A POST whose body parses to null: compressReading throws before the
\* handler reads or writes the store, nothing catches it, and the platform
\* answers 500.
PostCrashed(body) ==
    /\ Rejection(body) = 0
    /\ Raises(body.obj)
    /\ resp' = [NoResp EXCEPT !.kind = "crashed", !.code = 500]
    /\ resp' # resp
    /\ UNCHANGED <<deployed, clock, latest, history, nextId, mem, alerts,
                   outbound, req, nposts, inflight>>

\* sendOneSignalAlert(entry), called and not awaited: the outbound call is
\* started.
Dispatch(entry) == Append(alerts, [t |-> entry.t, r |-> entry.r])

\* The insert and the trim that follows it: the histories they can leave.
SaveHistory(h, entry, id) == Trim(h \cup {Doc(entry, id)})

----------------------------------------------------------------------------
\* POST, store-backed handler

\* nowTime - (prev.t || 0) > SAVE_INTERVAL_MS
ShouldSave(nowTime, prev) == nowTime - OrZero(prev.t) > SAVE_INTERVAL_MS

\* Faulty variant of ShouldAlert: the cooldown is not looked at.
ShouldAlert_NoCooldown(status, nowTime, lastAlertTime) ==
    status = "DANGER"

\* status === "DANGER" && nowTime - lastAlertTime > cooldownMs
ShouldAlert(status, nowTime, lastAlertTime) ==
    status = "DANGER" /\ nowTime - lastAlertTime > cooldownMs

\* What the handler derives from the parsed body, the clock and the latest
\* document it read.
Decide(obj, nowTime, prev) ==
    LET compressed == compressReading(obj)
        previousFlow == OrZero(prev.r)
        lastAlertTime == OrZero(prev.lastAlert)
        cs == computeStatus(compressed.r, previousFlow)
        alert == ShouldAlert(cs.status, nowTime, lastAlertTime)
    IN  [status |-> cs.status,
         flow |-> cs.flow,
         entry |-> Entry(compressed.p, cs.flow, compressed.la, compressed.lo,
                         cs.status, nowTime),
         save |-> ShouldSave(nowTime, prev),
         alert |-> alert,
         alertTime |-> IF alert THEN nowTime ELSE lastAlertTime]

\* Faulty variant of SetLatest: the latest document is written only by a
\* POST that also appends to the history.
SetLatest_Throttled(doc, d) ==
    IF d.save
    THEN [exists |-> TRUE, p |-> d.entry.p, r |-> d.entry.r, la |-> d.entry.la,
          lo |-> d.entry.lo, s |-> d.entry.s, t |-> d.entry.t, d |-> d.entry.d,
          hasLastAlert |-> TRUE, lastAlert |-> d.alertTime]
    ELSE doc

\* Faulty variant of SetLatest: lastAlert is set to the time of the POST
\* whether or not it dispatched an alert.
SetLatest_AlwaysNow(doc, d) ==
    [exists |-> TRUE, p |-> d.entry.p, r |-> d.entry.r, la |-> d.entry.la,
     lo |-> d.entry.lo, s |-> d.entry.s, t |-> d.entry.t, d |-> d.entry.d,
     hasLastAlert |-> TRUE, lastAlert |-> d.entry.t]

\* Faulty variant of SetLatest: alertTime starts from 0 instead of the
\* lastAlert that was read.
SetLatest_ForgetsAlert(doc, d) ==
    [exists |-> TRUE, p |-> d.entry.p, r |-> d.entry.r, la |-> d.entry.la,
     lo |-> d.entry.lo, s |-> d.entry.s, t |-> d.entry.t, d |-> d.entry.d,
     hasLastAlert |-> TRUE, lastAlert |-> IF d.alert THEN d.entry.t ELSE 0]

\* updateOne({_id: "latest"}, {$set: {p, r, la, lo, s, t, d, lastAlert}},
\* {upsert: true})
SetLatest(doc, d) ==
    [exists |-> TRUE, p |-> d.entry.p, r |-> d.entry.r, la |-> d.entry.la,
     lo |-> d.entry.lo, s |-> d.entry.s, t |-> d.entry.t, d |-> d.entry.d,
     hasLastAlert |-> TRUE, lastAlert |-> d.alertTime]

Post(body, gap) ==
    /\ deployed = "store"
    /\ Rejection(body) = 0
    /\ ~Raises(body.obj)
    /\ nposts < MaxPosts
    /\ nposts' = nposts + 1
    /\ clock' = clock + gap
    /\ LET d == Decide(body.obj, clock', latest)
       IN  /\ IF d.save
              THEN /\ history' \in SaveHistory(history, d.entry, nextId)
                   /\ nextId' = nextId + 1
              ELSE UNCHANGED <<history, nextId>>
           /\ alerts' = IF d.alert THEN Dispatch(d.entry) ELSE alerts
           /\ outbound' = IF d.alert THEN "pending" ELSE outbound
           /\ latest' = SetLatest(latest, d)
           /\ resp' = PostResponse(d.status)
           /\ req' = [obj |-> body.obj, now |-> clock', prev |-> latest,
                      status |-> d.status, flow |-> d.flow, entry |-> d.entry,
                      save |-> d.save, alert |-> d.alert,
                      deleted |-> IF d.save
                                  THEN Cardinality(history) + 1
                                       - Cardinality(history')
                                  ELSE 0]
    /\ UNCHANGED <<deployed, mem, inflight>>

----------------------------------------------------------------------------
\* POST, api/update_latest/index.js

\* computeStatus(currentFlow) of index.js: the same rule, applied to the
\* module-level previousFlow, which it then overwrites with the adjusted flow.
computeStatusCached(currentFlow, m) == computeStatus(currentFlow, m.previousFlow)

\* Date.now() - lastSavedTime > SAVE_INTERVAL_MS
ShouldSaveCached(now, m) == now - m.lastSavedTime > SAVE_INTERVAL_MS

\* status === "DANGER" && previousStatus !== "DANGER"
ShouldAlertOnTransition(status, previousStatus) ==
    status = "DANGER" /\ previousStatus # "DANGER"

\* What the handler derives from the parsed body, the clock, the latest
\* document it read and the module-level variables of its process.
DecideCached(obj, now, prev, m) ==
    LET compressed == compressReading(obj)
        cs == computeStatusCached(compressed.r, m)
        save == ShouldSaveCached(now, m)
    IN  [status |-> cs.status,
         flow |-> cs.flow,
         entry |-> Entry(compressed.p, compressed.r, compressed.la,
                         compressed.lo, cs.status, now),
         save |-> save,
         alert |-> ShouldAlertOnTransition(cs.status, normalizeStatus(prev.s)),
         mem |-> [lastSavedTime |-> IF save THEN now ELSE m.lastSavedTime,
                  previousFlow |-> cs.flow]]

\* updateOne({_id: "latest"}, {$set: entry}, {upsert: true}): lastAlert is
\* not among the fields set.
SetLatestEntry(doc, d) ==
    [doc EXCEPT !.exists = TRUE, !.p = d.entry.p, !.r = d.entry.r,
                !.la = d.entry.la, !.lo = d.entry.lo, !.s = d.entry.s,
                !.t = d.entry.t, !.d = d.entry.d]

PostCached(body, gap) ==
    /\ deployed = "cached"
    /\ Rejection(body) = 0
    /\ ~Raises(body.obj)
    /\ nposts < MaxPosts
    /\ nposts' = nposts + 1
    /\ clock' = clock + gap
    /\ LET d == DecideCached(body.obj, clock', latest, mem)
       IN  /\ latest' = SetLatestEntry(latest, d)
           /\ IF d.save
              THEN /\ history' \in SaveHistory(history, d.entry, nextId)
                   /\ nextId' = nextId + 1
              ELSE UNCHANGED <<history, nextId>>
           /\ mem' = d.mem
           /\ alerts' = IF d.alert THEN Dispatch(d.entry) ELSE alerts
           /\ outbound' = IF d.alert THEN "pending" ELSE outbound
           /\ resp' = PostResponse(d.status)
           /\ req' = [obj |-> body.obj, now |-> clock', prev |-> latest,
                      status |-> d.status, flow |-> d.flow, entry |-> d.entry,
                      save |-> d.save, alert |-> d.alert,
                      deleted |-> IF d.save
                                  THEN Cardinality(history) + 1
                                       - Cardinality(history')
                                  ELSE 0]
    /\ UNCHANGED <<deployed, inflight>>

\* The serving process is replaced by a fresh one (a cold start): its
\* module-level variables start over, the store stays.
ColdStart ==
    /\ deployed = "cached"
    /\ mem # FreshMem
    /\ mem' = FreshMem
    /\ UNCHANGED <<deployed, clock, latest, history, nextId, alerts, outbound,
                   req, resp, nposts, inflight>>

----------------------------------------------------------------------------
\* GET, latest snapshot (the same code in both handlers)

\* Faulty variant of LatestView: lat and lon are taken from each other's
\* field.
LatestView_Swapped(doc) ==
    IF ~doc.exists
    THEN [NoResp EXCEPT !.kind = "latest", !.code = 200]
    ELSE [kind |-> "latest", code |-> 200, status |-> normalizeStatus(doc.s),
          empty |-> FALSE, pulses |-> doc.p, rotations |-> doc.r,
          lat |-> doc.lo, lon |-> doc.la, timestamp |-> doc.t, date |-> doc.d,
          list |-> <<>>]

\* Faulty variant of LatestView: a store without a latest document is
\* answered with 404.
LatestView_NotFound(doc) ==
    IF ~doc.exists
    THEN [NoResp EXCEPT !.kind = "latest", !.code = 404]
    ELSE [kind |-> "latest", code |-> 200, status |-> normalizeStatus(doc.s),
          empty |-> FALSE, pulses |-> doc.p, rotations |-> doc.r,
          lat |-> doc.la, lon |-> doc.lo, timestamp |-> doc.t, date |-> doc.d,
          list |-> <<>>]

LatestView(doc) ==
    IF ~doc.exists
    THEN [NoResp EXCEPT !.kind = "latest", !.code = 200]
    ELSE [kind |-> "latest", code |-> 200, status |-> normalizeStatus(doc.s),
          empty |-> FALSE, pulses |-> doc.p, rotations |-> doc.r,
          lat |-> doc.la, lon |-> doc.lo, timestamp |-> doc.t, date |-> doc.d,
          list |-> <<>>]

GetLatest ==
    /\ resp' = LatestView(latest)
    /\ resp' # resp
    /\ UNCHANGED <<deployed, clock, latest, history, nextId, mem, alerts,
                   outbound, req, nposts, inflight>>

----------------------------------------------------------------------------
\* GET, history by day and CSV export (the same code in both handlers)

HISTORY_LIMIT == 2000
CSV_LIMIT == 5000

\* find(filter).sort({t: dir}).limit(n).toArray(): the documents of S in
\* the order of t, ascending or descending, cut after n; the order among
\* equal t is the store's choice.
Sorted(S, ascending, n) ==
    LET len == Cardinality(S)
        all == {q \in [1..len -> S] :
                   /\ \A i, j \in 1..len : i # j => q[i] # q[j]
                   /\ \A i, j \in 1..len :
                         i < j => IF ascending THEN q[i].t <= q[j].t
                                               ELSE q[i].t >= q[j].t}
    IN  {IF len > n THEN SubSeq(q, 1, n) ELSE q : q \in all}

\* The wire form of a history document.
HistoryView(x) ==
    [pulses |-> x.p, rotations |-> x.r, lat |-> x.la, lon |-> x.lo,
     status |-> normalizeStatus(x.s), timestamp |-> x.t, date |-> x.d]

\* GET ?date=...: the documents of that day, newest first.
GetHistory(date) ==
    /\ \E list \in Sorted({x \in history : x.d = date}, FALSE, HISTORY_LIMIT) :
          resp' = [NoResp EXCEPT !.kind = "history", !.code = 200,
                                 !.list = [i \in 1..Len(list) |->
                                              HistoryView(list[i])]]
    /\ resp' # resp
    /\ UNCHANGED <<deployed, clock, latest, history, nextId, mem, alerts,
                   outbound, req, nposts, inflight>>

\* new Date(Number(x.t)).toLocaleString("en-GB", {timeZone: "Asia/Kolkata",
\* hour12: false}): the wall-clock time of UTC+05:30, to the second.
LocalDateTime(t) == (t + 19800000) \div 1000

\* One line of the CSV export.
CsvRow(x) ==
    [datetime |-> LocalDateTime(x.t), timestamp |-> x.t,
     status |-> normalizeStatus(x.s), pulses |-> x.p, rotations |-> x.r,
     lat |-> x.la, lon |-> x.lo]

\* A query without a date parameter.
NoDate == -1

\* GET ?csv=1[&date=...]: the documents of that day, or all of them,
\* oldest first.
GetCsv(date) ==
    /\ LET filtered == IF date # NoDate
                       THEN {x \in history : x.d = date}
                       ELSE history
       IN  \E list \in Sorted(filtered, TRUE, CSV_LIMIT) :
             resp' = [NoResp EXCEPT !.kind = "csv", !.code = 200,
                                    !.list = [i \in 1..Len(list) |->
                                                 CsvRow(list[i])]]
    /\ resp' # resp
    /\ UNCHANGED <<deployed, clock, latest, history, nextId, mem, alerts,
                   outbound, req, nposts, inflight>>

----------------------------------------------------------------------------
\* The outbound call, after the handler has gone on

\* fetch() resolves; nothing reads the result.
AlertDelivered ==
    /\ outbound = "pending"
    /\ outbound' = "delivered"
    /\ UNCHANGED <<deployed, clock, latest, history, nextId, mem, alerts,
                   req, resp, nposts, inflight>>

\* Faulty variant of AlertFailed: the handler awaits the call without a
\* catch, so the rejection turns the response into a 500.
AlertFailed_Propagated ==
    /\ outbound = "pending"
    /\ outbound' = "logged"
    /\ resp' = [NoResp EXCEPT !.kind = "post", !.code = 500]
    /\ UNCHANGED <<deployed, clock, latest, history, nextId, mem, alerts,
                   req, nposts, inflight>>

\* fetch() rejects: the catch block of sendOneSignalAlert logs the error.
AlertFailed ==
    /\ outbound = "pending"
    /\ outbound' = "logged"
    /\ UNCHANGED <<deployed, clock, latest, history, nextId, mem, alerts,
                   req, resp, nposts, inflight>>

----------------------------------------------------------------------------
Next ==
    \/ \E body \in Bodies, gap \in Gaps : Post(body, gap)
    \/ \E body \in Bodies, gap \in Gaps : PostCached(body, gap)
    \/ \E body \in Bodies : PostRejected(body)
    \/ ColdStart
    \/ GetLatest
    \/ AlertDelivered
    \/ AlertFailed

Spec == Init /\ [][Next]_vars

----------------------------------------------------------------------------
\* Sweep of the classifier: POSTs 5 s apart whose rotation counts range
\* over Flows, to either handler, from the empty store.

FlowBody(c) == Body(60, TRUE, Reading(7, c, 12, 77))

PostFlow(c) == Post(FlowBody(c), 5000)

PostCachedFlow(c) == PostCached(FlowBody(c), 5000)

NextSweep ==
    \/ \E c \in Flows : PostFlow(c)
    \/ \E c \in Flows : PostCachedFlow(c)

SweepSpec == Init /\ [][NextSweep]_vars

----------------------------------------------------------------------------
\* The normalizer on raw objects: POSTs 5 s apart whose fields are absent,
\* null, numbers or text that is no number, in long and in short form.

\* An object whose long-form fields all hold long and whose short-form
\* fields all hold short.
RawReading(long, short) ==
    [pulses |-> long, rotations |-> long, lat |-> long, lon |-> long,
     p |-> short, r |-> short, la |-> short, lo |-> short]

\* Every pairing of an absent, null, numeric or textual long form with an
\* absent, null, numeric or textual short form, and two objects that mix
\* the forms field by field.
RawReadings ==
    { RawReading(long, short) :
        long \in {Absent, Null, Num(133), Text},
        short \in {Absent, Null, Num(3), Text} }
    \cup
    { [pulses |-> Num(7), rotations |-> Absent, lat |-> Null, lon |-> Text,
       p |-> Num(8), r |-> Num(41), la |-> Num(12), lo |-> Num(77)],
      [pulses |-> Absent, rotations |-> Text, lat |-> Num(12), lon |-> Absent,
       p |-> Absent, r |-> Num(3), la |-> Text, lo |-> Null] }

RawBody(obj) == Body(60, TRUE, obj)

PostRaw(obj) == Post(RawBody(obj), 5000)

PostCachedRaw(obj) == PostCached(RawBody(obj), 5000)

\* The four-byte body "null".
NullBody == Body(4, TRUE, Null)

PostNull == PostCrashed(NullBody)

NextCoerce ==
    \/ \E obj \in RawReadings : PostRaw(obj)
    \/ \E obj \in RawReadings : PostCachedRaw(obj)
    \/ PostNull

CoerceSpec == Init /\ [][NextCoerce]_vars

----------------------------------------------------------------------------
\* The read paths on a store as earlier deployments may have left it: empty,
\* or holding documents whose s is a legacy or oddly cased value.

\* The s a stored document can hold: what the handlers write, the legacy
\* values, casing variants, a near miss, another word, and "" for a
\* document without s.
StoredStatuses ==
    {"SAFE", "DANGER", "danger", "Danger", "normal", "NORMAL", "danger ",
     "ALERT", ""}

\* The days a query can name: the day of the stored documents and the
\* day after, which has none.
Dates == {todayIST(StartTime), todayIST(StartTime) + 1}

\* The i-th stored document, with s as its status.
StoredEntry(i, s) ==
    Entry(10 * i, 130 + i, 12, 77, s, StartTime - 11000 * i)

StoredLatest(s) ==
    [NoDoc EXCEPT !.exists = TRUE, !.p = 10, !.r = 131, !.la = 12, !.lo = 77,
                  !.s = s, !.t = StartTime - 11000,
                  !.d = todayIST(StartTime - 11000)]

InitRead ==
    /\ deployed \in {"store", "cached"}
    /\ clock = StartTime
    /\ latest \in {NoDoc} \cup {StoredLatest(s) : s \in StoredStatuses}
    /\ \E ss \in [1..MAX_HISTORY_DOCS -> StoredStatuses \cup {"none"}] :
          history = {Doc(StoredEntry(i, ss[i]), i) :
                        i \in {j \in 1..MAX_HISTORY_DOCS : ss[j] # "none"}}
    /\ nextId = MAX_HISTORY_DOCS + 1
    /\ mem = FreshMem
    /\ alerts = <<>>
    /\ outbound = "none"
    /\ req = NoReq
    /\ resp = NoResp
    /\ nposts = 0
    /\ inflight = NoneInFlight

NextRead ==
    \/ GetLatest
    \/ \E date \in Dates : GetHistory(date)
    \/ \E date \in Dates \cup {NoDate} : GetCsv(date)

ReadSpec == InitRead /\ [][NextRead]_vars

----------------------------------------------------------------------------
\* POST, store-backed handler, await by await: several POSTs under way at
\* once, each store call a step of its own, and an invocation that dies
\* between its insert and the end of its trim.

\* Time between the start of one POST and the start of the next.
StepGaps == {5000, 11000}

StepBodies ==
    { Body(60, TRUE, Reading(10, 3, 12, 77)),
      Body(60, TRUE, Reading(20, 133, 13, 78)) }

\* The i-th last of the readings stored before the run: SAFE readings
\* 11 s apart, each appended to the history.
PastEntry(i) == Entry(10, 3, 12, 77, "SAFE", StartTime - 11000 * i)

\* The store after MAX_HISTORY_DOCS such POSTs: a history at capacity and
\* the latest document of the last of them.
InitStep ==
    /\ deployed = "store"
    /\ clock = StartTime
    /\ latest = [exists |-> TRUE, p |-> 10, r |-> 3, la |-> 12, lo |-> 77,
                 s |-> "SAFE", t |-> StartTime - 11000,
                 d |-> todayIST(StartTime - 11000),
                 hasLastAlert |-> TRUE, lastAlert |-> 0]
    /\ history = {Doc(PastEntry(MAX_HISTORY_DOCS + 1 - i), i) :
                      i \in 1..MAX_HISTORY_DOCS}
    /\ nextId = MAX_HISTORY_DOCS + 1
    /\ mem = FreshMem
    /\ alerts = <<>>
    /\ outbound = "none"
    /\ req = NoReq
    /\ resp = NoResp
    /\ nposts = 0
    /\ inflight = NoneInFlight

\* A POST that has answered or died: its local variables are gone.
Ended(pc, over) == [NewPost EXCEPT !.pc = pc, !.over = over]

\* The POST has begun and has neither answered nor died.
UnderWay(i) ==
    inflight[i].pc \in {"insert", "count", "find", "delete", "update"}

\* Faulty variant of Begin: the count and trim are outside the throttle's
\* if, so a POST that appends nothing trims too.
Begin_AlwaysTrim(i, body, gap) ==
    /\ deployed = "store"
    /\ Rejection(body) = 0
    /\ ~Raises(body.obj)
    /\ inflight[i].pc = "new"
    /\ nposts = i - 1
    /\ nposts' = nposts + 1
    /\ clock' = clock + gap
    /\ LET d == Decide(body.obj, clock', latest)
       IN  inflight' = [inflight EXCEPT ![i] =
               [pc |-> IF d.save THEN "insert" ELSE "count",
                over |-> \E j \in Slots : UnderWay(j),
                prev |-> latest, d |-> d, count |-> 0, oldest |-> {}]]
    /\ UNCHANGED <<deployed, latest, history, nextId, mem, alerts, outbound,
                   req, resp>>

\* The body is read and parsed, findOne({_id: "latest"}) answers, and the
\* handler computes the status, reads Date.now() and builds the entry.
Begin(i, body, gap) ==
    /\ deployed = "store"
    /\ Rejection(body) = 0
    /\ ~Raises(body.obj)
    /\ inflight[i].pc = "new"
    /\ nposts = i - 1
    /\ nposts' = nposts + 1
    /\ clock' = clock + gap
    /\ LET d == Decide(body.obj, clock', latest)
       IN  inflight' = [inflight EXCEPT ![i] =
               [pc |-> IF d.save THEN "insert" ELSE "update",
                over |-> \E j \in Slots : UnderWay(j),
                prev |-> latest, d |-> d, count |-> 0, oldest |-> {}]]
    /\ UNCHANGED <<deployed, latest, history, nextId, mem, alerts, outbound,
                   req, resp>>

\* await historyCol.insertOne(entry)
Insert(i) ==
    /\ inflight[i].pc = "insert"
    /\ history' = history \cup {Doc(inflight[i].d.entry, nextId)}
    /\ nextId' = nextId + 1
    /\ inflight' = [inflight EXCEPT ![i].pc = "count"]
    /\ UNCHANGED <<deployed, clock, latest, mem, alerts, outbound, req, resp,
                   nposts>>

\* await historyCol.estimatedDocumentCount(), and the test of the count
Count(i) ==
    /\ inflight[i].pc = "count"
    /\ LET count == estimatedDocumentCount(history)
       IN  inflight' = [inflight EXCEPT
               ![i].count = count,
               ![i].pc = IF count > MAX_HISTORY_DOCS THEN "find" ELSE "update"]
    /\ UNCHANGED <<deployed, clock, latest, history, nextId, mem, alerts,
                   outbound, req, resp, nposts>>

\* Faulty variant of Extra: the trim removes one document per append.
Extra_One(count) == 1

\* const extra = count - MAX_HISTORY_DOCS
Extra(count) == count - MAX_HISTORY_DOCS

\* limit(n) on a collection of fewer than n documents returns them all.
Limit(h, n) == IF n > Cardinality(h) THEN Cardinality(h) ELSE n

\* await historyCol.find({}).sort({t: 1}).limit(extra).project({_id: 1})
\* .toArray(), and the test of oldest.length
Find(i) ==
    /\ inflight[i].pc = "find"
    /\ \E S \in Oldest(history, Limit(history, Extra(inflight[i].count))) :
          inflight' = [inflight EXCEPT
              ![i].oldest = {x.id : x \in S},
              ![i].pc = IF S # {} THEN "delete" ELSE "update"]
    /\ UNCHANGED <<deployed, clock, latest, history, nextId, mem, alerts,
                   outbound, req, resp, nposts>>

\* await historyCol.deleteMany({_id: {$in: oldest.map(x => x._id)}})
Delete(i) ==
    /\ inflight[i].pc = "delete"
    /\ history' = {x \in history : x.id \notin inflight[i].oldest}
    /\ inflight' = [inflight EXCEPT ![i].pc = "update"]
    /\ UNCHANGED <<deployed, clock, latest, nextId, mem, alerts, outbound,
                   req, resp, nposts>>

\* The alert logic, await latestCol.updateOne(...) and the response. The
\* call of sendOneSignalAlert and the update are issued in one turn of the
\* event loop, with no await between them.
Update(i) ==
    /\ inflight[i].pc = "update"
    /\ LET d == inflight[i].d
       IN  /\ alerts' = IF d.alert THEN Dispatch(d.entry) ELSE alerts
           /\ outbound' = IF d.alert THEN "pending" ELSE outbound
           /\ latest' = SetLatest(latest, d)
           /\ resp' = PostResponse(d.status)
    /\ inflight' = [inflight EXCEPT ![i] = Ended("done", inflight[i].over)]
    /\ UNCHANGED <<deployed, clock, history, nextId, mem, req, nposts>>

\* The invocation dies after its insert and before its trim has ended (the
\* platform kills it, or a store call of the trim throws): nothing more of
\* this POST runs.
Crash(i) ==
    /\ inflight[i].pc \in {"count", "find", "delete"}
    /\ inflight' = [inflight EXCEPT ![i] = Ended("crashed", inflight[i].over)]
    /\ resp' = [NoResp EXCEPT !.kind = "crashed", !.code = 500]
    /\ UNCHANGED <<deployed, clock, latest, history, nextId, mem, alerts,
                   outbound, req, nposts>>

NextStep ==
    \/ \E i \in Slots, body \in StepBodies, gap \in StepGaps :
          Begin(i, body, gap)
    \/ \E i \in Slots : Insert(i)
    \/ \E i \in Slots : Count(i)
    \/ \E i \in Slots : Find(i)
    \/ \E i \in Slots : Delete(i)
    \/ \E i \in Slots : Update(i)
    \/ \E i \in Slots : Crash(i)

StepSpec == InitStep /\ [][NextStep]_vars

\* The same steps from a store an invocation has left over capacity: the
\* last POST answered 3 s ago, and an invocation that began 1 s after it
\* died between its insert and its trim.

\* The i-th last of the readings appended by POSTs that answered.
AnsweredEntry(i) ==
    Entry(10, 3, 12, 77, "SAFE", StartTime - 3000 - 11000 * (i - 1))

\* The entry of the invocation that died.
DiedEntry == Entry(10, 3, 12, 77, "SAFE", StartTime - 2000)

InitOver ==
    /\ deployed = "store"
    /\ clock = StartTime
    /\ latest = [exists |-> TRUE, p |-> 10, r |-> 3, la |-> 12, lo |-> 77,
                 s |-> "SAFE", t |-> StartTime - 3000,
                 d |-> todayIST(StartTime - 3000),
                 hasLastAlert |-> TRUE, lastAlert |-> 0]
    /\ history = {Doc(AnsweredEntry(MAX_HISTORY_DOCS + 1 - i), i) :
                      i \in 1..MAX_HISTORY_DOCS}
                 \cup {Doc(DiedEntry, MAX_HISTORY_DOCS + 1)}
    /\ nextId = MAX_HISTORY_DOCS + 2
    /\ mem = FreshMem
    /\ alerts = <<>>
    /\ outbound = "none"
    /\ req = NoReq
    /\ resp = NoResp
    /\ nposts = 0
    /\ inflight = NoneInFlight

OverSpec == InitOver /\ [][NextStep]_vars

----------------------------------------------------------------------------
\* A device that reports more often than the save interval: POSTs to either
\* handler, from the empty store, every gap between them shorter than
\* SAVE_INTERVAL_MS.

CadenceGaps == {6000, 9000}

PostAtCadence(body, gap) == Post(body, gap)

PostCachedAtCadence(body, gap) == PostCached(body, gap)

NextCadence ==
    \/ \E body \in Bodies, gap \in CadenceGaps : PostAtCadence(body, gap)
    \/ \E body \in Bodies, gap \in CadenceGaps : PostCachedAtCadence(body, gap)

CadenceSpec == Init /\ [][NextCadence]_vars

----------------------------------------------------------------------------
\* Properties

\* What the last accepted POST carried.
Posted == [pulses |-> req.obj.pulses.v, rotations |-> req.obj.rotations.v,
           lat |-> req.obj.lat.v, lon |-> req.obj.lon.v]

\* The r of the latest document the last accepted POST read, as the
\* handler takes it (0 when there was none).
PrevFlow == IF req.prev.exists THEN req.prev.r ELSE 0

Dist(a, b) == IF a < b THEN b - a ELSE a - b

\* C1: the status a POST computes is DANGER if and only if its adjusted
\* flow is greater than 120; nothing else forces DANGER.
C1_DangerIffAboveThreshold ==
    nposts > 0 => (req.status = "DANGER" <=> req.flow > 120)

\* C2: a POST dispatches an alert exactly when its status is DANGER and
\* more than 60000 ms have passed since the lastAlert of the latest
\* document it read.
C2_AlertIffCooldown60s ==
    (deployed = "store" /\ nposts > 0) =>
        (req.alert <=>
            (req.status = "DANGER" /\ req.now - req.prev.lastAlert > 60000))

\* C3: after the append and trim of a POST the history holds at most
\* MAX_HISTORY_DOCS documents, exactly MAX_HISTORY_DOCS when the append
\* took it over the capacity, and no document deleted is newer by t than a
\* document kept; no other step changes the history.
C3_TrimKeepsMostRecent ==
    [][IF ~(nposts' # nposts /\ req'.save) THEN history' = history ELSE
        LET all == history \cup {Doc(req'.entry, nextId)}
        IN  /\ history' \subseteq all
            /\ Cardinality(history') <= MAX_HISTORY_DOCS
            /\ Cardinality(history') =
                 IF Cardinality(all) > MAX_HISTORY_DOCS
                 THEN MAX_HISTORY_DOCS
                 ELSE Cardinality(all)
            /\ \A x \in all \ history' : \A y \in history' : x.t <= y.t]_vars

\* C3, its case: MAX_HISTORY_DOCS + 1 documents were appended, the last
\* append's trim deleted one, and the first document is the one gone.
C3_Witness ==
    /\ nextId = MAX_HISTORY_DOCS + 2
    /\ req.deleted = 1
    /\ Cardinality(history) = MAX_HISTORY_DOCS
    /\ \A y \in history : y.id > 1

\* C4: a POST appends to the history if and only if more than 3000 ms
\* have passed since the t of the latest document it read.
C4_SaveIffOver3s ==
    (deployed = "store" /\ nposts > 0) =>
        (req.save <=> req.now - req.prev.t > 3000)

\* C5: the adjusted flow of computeStatus is previousFlow when currentFlow
\* is less than 2 away from it and currentFlow otherwise, and it is the r
\* the POST stores in the latest document.
C5_NoiseSuppression ==
    (deployed = "store" /\ nposts > 0) =>
        /\ Dist(Posted.rotations, PrevFlow) < 2 => req.flow = PrevFlow
        /\ Dist(Posted.rotations, PrevFlow) >= 2 => req.flow = Posted.rotations
        /\ latest.r = req.flow

\* C5, its case: a reading one off the stored flow was posted and the
\* stored flow stayed.
C5_Witness ==
    /\ deployed = "store"
    /\ nposts > 1
    /\ Dist(Posted.rotations, PrevFlow) = 1
    /\ latest.r = PrevFlow

\* C6 as stated: a latest-snapshot GET right after an accepted POST
\* returns the pulses, rotations, lat and lon that were posted.
C6_RoundTripExact ==
    (resp.kind = "latest" /\ nposts > 0) =>
        /\ resp.pulses = Posted.pulses
        /\ resp.rotations = Posted.rotations
        /\ resp.lat = Posted.lat
        /\ resp.lon = Posted.lon

\* C6, amended: a latest-snapshot GET right after an accepted POST returns
\* the pulses, lat and lon that were posted; the rotations it returns are
\* the posted ones, except that after a POST to the store-backed handler
\* whose rotations are less than 2 away from the previously stored r they
\* are that previously stored r.
C6_RoundTripAdjusted ==
    (resp.kind = "latest" /\ nposts > 0) =>
        /\ ~resp.empty
        /\ resp.pulses = Posted.pulses
        /\ resp.lat = Posted.lat
        /\ resp.lon = Posted.lon
        /\ resp.rotations =
             IF deployed = "store" /\ Dist(Posted.rotations, PrevFlow) < 2
             THEN PrevFlow
             ELSE Posted.rotations

\* C6, its case: a snapshot read after a POST whose rotations the noise
\* suppression replaced.
C6_Witness ==
    /\ resp.kind = "latest"
    /\ nposts > 1
    /\ resp.rotations # Posted.rotations
    /\ resp.pulses = Posted.pulses

\* The time of the last alert dispatched before the last accepted POST, 0
\* when there was none.
LastAlertBefore ==
    LET n == IF req.alert THEN Len(alerts) - 1 ELSE Len(alerts)
    IN  IF n > 0 THEN alerts[n].t ELSE 0

\* C7: during a sustained DANGER condition (the stored status is DANGER and
\* the new reading is above the threshold and classified DANGER), a POST
\* that comes more than the cooldown (60000 ms) after the last alert
\* dispatches an alert.
C7_RenotifyWhileDanger ==
    ( /\ nposts > 1
      /\ req.status = "DANGER"
      /\ req.flow > SAFE_THRESHOLD
      /\ normalizeStatus(req.prev.s) = "DANGER"
      /\ req.prev.r > SAFE_THRESHOLD
      /\ req.now - LastAlertBefore > 60000 ) => req.alert

\* C8: after every accepted POST the latest document carries that POST's
\* p, r, la, lo, s, t and d, whether or not the POST appended to the
\* history.
C8_LatestAlwaysOverwritten ==
    nposts > 0 =>
        /\ latest.exists
        /\ latest.t = clock
        /\ latest.t = req.now
        /\ latest.d = todayIST(req.now)
        /\ latest.s = req.status
        /\ latest.p = Posted.pulses
        /\ latest.la = Posted.lat
        /\ latest.lo = Posted.lon
        /\ latest.r = IF deployed = "store" THEN req.flow ELSE Posted.rotations

\* C8, its case: the second POST came within the save interval, appended
\* nothing, and the latest document is its own.
C8_Witness ==
    /\ nposts = 2
    /\ ~req.save
    /\ Cardinality(history) = 1
    /\ latest.t = req.now
    /\ latest.t > req.prev.t

\* C9: the POST that starts the outbound call answers 200 in the same step,
\* while the call is pending; whatever the call's outcome, it changes
\* neither the response, nor the store, nor the calls made (no retry).
C9_OutboundContained ==
    [][ /\ (nposts' # nposts /\ req'.alert) =>
              /\ resp' = PostResponse(req'.status)
              /\ outbound' = "pending"
        /\ (nposts' = nposts /\ outbound' # outbound) =>
              /\ outbound = "pending"
              /\ resp' = resp
              /\ latest' = latest
              /\ history' = history
              /\ alerts' = alerts ]_vars

\* C9, its case: the outbound call failed after the POST was answered.
C9_Witness ==
    /\ outbound = "logged"
    /\ req.alert
    /\ resp.kind = "post"
    /\ resp.code = 200

\* C10: what a POST decides depends on the payload, the clock and the
\* latest document only: a process that has served requests and a fresh
\* process decide the same.
C10_NoProcessState ==
    deployed = "cached" =>
        \A body \in Bodies, gap \in Gaps :
            Rejection(body) = 0 =>
                LET warm == DecideCached(body.obj, clock + gap, latest, mem)
                    cold == DecideCached(body.obj, clock + gap, latest, FreshMem)
                IN  /\ warm.status = cold.status
                    /\ warm.entry = cold.entry
                    /\ warm.save = cold.save
                    /\ warm.alert = cold.alert

\* C11: a POST whose body JSON.parse refuses is answered with the error 400
\* and applied in no part: the latest document (lastAlert included), the
\* history, the calls made and the process's variables stay as they were.
C11_MalformedNeverApplied ==
    /\ [](\A b \in Bodies :
            (~b.ok /\ b.bytes <= 512) => Rejection(b) = 400)
    /\ [][(resp' # resp /\ resp'.kind = "rejected" /\ resp'.code = 400) =>
            /\ latest' = latest
            /\ history' = history
            /\ alerts' = alerts
            /\ outbound' = outbound
            /\ mem' = mem
            /\ nposts' = nposts]_vars

\* C11, its case: a malformed body was refused while the store held a
\* latest document with a lastAlert, a history and a dispatched alert.
C11_Witness ==
    /\ resp.kind = "rejected"
    /\ resp.code = 400
    /\ latest.exists
    /\ latest.hasLastAlert
    /\ latest.lastAlert > 0
    /\ history # {}
    /\ Len(alerts) > 0

\* C12: a body is refused for its size (413) exactly when it is longer than
\* 512 bytes, whether or not it would parse; the refusal leaves the latest
\* document, the history and the calls made as they were.
C12_OversizeRejected ==
    /\ [](\A b \in Bodies : Rejection(b) = 413 <=> b.bytes > 512)
    /\ [][(resp' # resp /\ resp'.kind = "rejected" /\ resp'.code = 413) =>
            /\ latest' = latest
            /\ history' = history
            /\ alerts' = alerts
            /\ outbound' = outbound
            /\ mem' = mem
            /\ nposts' = nposts]_vars

\* C12, its case: a body over the limit was refused while the store held
\* readings, after a POST that was accepted.
C12_Witness ==
    /\ resp.kind = "rejected"
    /\ resp.code = 413
    /\ nposts > 1
    /\ latest.exists
    /\ Cardinality(history) = MAX_HISTORY_DOCS

\* The value the normalizer is specified to give a field: the long form
\* when present, otherwise the short form, otherwise 0, and 0 for anything
\* that is no number.
Normalized(long, short) ==
    LET v == Coalesce(long, Coalesce(short, Num(0)))
    IN  IF v.k = "num" THEN v.v ELSE 0

\* C13: compressReading never raises, and each field of the reading it
\* returns is the long-form value when present, otherwise the short-form
\* value, otherwise 0, with 0 for anything that is no number: every field
\* is a number.
C13_CoercionNeverFails ==
    /\ resp.kind # "crashed"
    /\ nposts > 0 =>
          LET c == compressReading(req.obj)
          IN  /\ c.p = Normalized(req.obj.pulses, req.obj.p)
              /\ c.r = Normalized(req.obj.rotations, req.obj.r)
              /\ c.la = Normalized(req.obj.lat, req.obj.la)
              /\ c.lo = Normalized(req.obj.lon, req.obj.lo)
              /\ NaN \notin {c.p, c.r, c.la, c.lo}
              /\ NaN \notin {latest.p, latest.r, latest.la, latest.lo}

\* The spellings of DANGER, whatever the case of the letters, among the
\* values a stored s can hold.
DangerSpellings == {"DANGER", "danger", "Danger"}

\* The status a read path is specified to return for a stored s.
Rendered(s) == IF s \in DangerSpellings THEN "DANGER" ELSE "SAFE"

\* C14: on the latest snapshot, the history by day and the CSV export the
\* status returned for a stored document is DANGER exactly when its s is
\* "DANGER" in any casing, and SAFE for every other s; nothing but SAFE or
\* DANGER is returned.
C14_StatusNormalizedOnRead ==
    /\ (resp.kind = "latest" /\ ~resp.empty) =>
          /\ resp.status = Rendered(latest.s)
          /\ resp.status \in {"SAFE", "DANGER"}
    /\ resp.kind \in {"history", "csv"} =>
          \A i \in 1..Len(resp.list) :
              /\ resp.list[i].status \in {"SAFE", "DANGER"}
              /\ \E x \in history :
                    /\ x.t = resp.list[i].timestamp
                    /\ resp.list[i].status = Rendered(x.s)

\* C14, its case: a history listing of two documents, one stored with the
\* legacy "normal" and one with a lower-case "danger".
C14_Witness ==
    /\ resp.kind = "history"
    /\ Len(resp.list) = 2
    /\ \E x, y \in history :
          /\ x.s = "normal"
          /\ y.s = "danger"
          /\ resp.list[1].timestamp = x.t
          /\ resp.list[1].status = "SAFE"
          /\ resp.list[2].timestamp = y.t
          /\ resp.list[2].status = "DANGER"

\* C16: while the store holds no reading, the latest snapshot is answered
\* 200 with the empty result and the history by day 200 with the empty
\* list; no GET changes the store.
C16_EmptyStoreReads ==
    /\ []((~latest.exists /\ history = {}) =>
            /\ resp.kind = "latest" => (resp.code = 200 /\ resp.empty)
            /\ resp.kind = "history" => (resp.code = 200 /\ resp.list = <<>>))
    /\ [][(resp' # resp /\ resp'.kind \in {"latest", "history"}) =>
            (latest' = latest /\ history' = history)]_vars

\* C16, its case: the history of a day was asked of an empty store and
\* the empty list was answered.
C16_Witness ==
    /\ ~latest.exists
    /\ history = {}
    /\ resp.kind = "history"
    /\ resp.code = 200
    /\ resp.list = <<>>

\* C15: a POST that finds no latest document takes the previous flow as 0:
\* with rotations 133 its adjusted flow is 133 and its status DANGER, with
\* rotations 3 its status is SAFE.
C15_ColdStartClassification ==
    (nposts > 0 /\ ~req.prev.exists) =>
        /\ PrevFlow = 0
        /\ Posted.rotations = 133 =>
              /\ req.flow = 133
              /\ req.status = "DANGER"
              /\ latest.r = 133
              /\ latest.s = "DANGER"
        /\ Posted.rotations = 3 =>
              /\ req.status = "SAFE"
              /\ latest.s = "SAFE"

\* C15, its case: the first POST to an empty store carried rotations 133
\* and was answered DANGER.
C15_Witness ==
    /\ nposts = 1
    /\ ~req.prev.exists
    /\ Posted.rotations = 133
    /\ resp.kind = "post"
    /\ resp.status = "DANGER"
    /\ latest.r = 133

\* Some POST of the run began while another was under way.
Overlapped == \E i \in Slots : inflight[i].over

\* C17: in a run whose POSTs do not overlap, a POST that appends to a
\* history which is then count > MAX_HISTORY_DOCS documents long (by one,
\* or by more after an invocation died between its append and its trim)
\* always trims, and its delete removes exactly count - MAX_HISTORY_DOCS
\* documents, none newer by t than a document kept, and leaves exactly
\* MAX_HISTORY_DOCS.
C17_SelfHealingTrim ==
    [][\A i \in Slots :
        ~Overlapped =>
          /\ (inflight[i].pc = "count" /\ inflight'[i].pc = "update") =>
                Cardinality(history) <= MAX_HISTORY_DOCS
          /\ (inflight[i].pc = "find" /\ inflight'[i].pc \notin {"find", "crashed"})
                => inflight'[i].pc = "delete"
          /\ (inflight[i].pc = "delete" /\ inflight'[i].pc = "update") =>
                /\ inflight[i].count = Cardinality(history)
                /\ inflight[i].count > MAX_HISTORY_DOCS
                /\ history' \subseteq history
                /\ Cardinality(history \ history') =
                      inflight[i].count - MAX_HISTORY_DOCS
                /\ Cardinality(history') = MAX_HISTORY_DOCS
                /\ \A x \in history \ history' : \A y \in history' :
                      x.t <= y.t]_vars

\* C17, its case: an invocation died after its append, the next POST
\* found the history two over capacity and its trim has brought it back to
\* capacity.
C17_Witness ==
    /\ ~Overlapped
    /\ \E i, j \in Slots :
          /\ inflight[j].pc = "crashed"
          /\ inflight[i].pc = "update"
          /\ inflight[i].count = MAX_HISTORY_DOCS + 2
    /\ Cardinality(history) = MAX_HISTORY_DOCS

\* C18: whenever no POST stands between its append and the end of its
\* trim (and none died there), the history holds at most MAX_HISTORY_DOCS
\* documents, however the appends, counts, selections and deletes of the
\* POSTs were interleaved.
C18_BoundedUnderInterleaving ==
    (\A i \in Slots : inflight[i].pc \in {"new", "insert", "update", "done"})
        => Cardinality(history) <= MAX_HISTORY_DOCS

\* C18, its case: two POSTs both appended before either counted, both
\* trimmed, and the history is within capacity.
C18_Witness ==
    /\ \E i, j \in Slots :
          /\ i # j
          /\ inflight[i].pc = "update"
          /\ inflight[j].pc = "update"
          /\ inflight[i].count = MAX_HISTORY_DOCS + 2
          /\ inflight[j].count = MAX_HISTORY_DOCS + 2
    /\ Cardinality(history) <= MAX_HISTORY_DOCS

\* C19: when no POST of the run began while another was under way, any two
\* alerts dispatched are more than the cooldown apart; two alerts within
\* one cooldown window come only from POSTs that overlap.
C19_DuplicateOnlyWhenOverlapping ==
    ~Overlapped =>
        \A i, j \in 1..Len(alerts) :
            i < j => alerts[j].t - alerts[i].t > cooldownMs

\* C19, its case: two overlapping DANGER POSTs read the same latest
\* document and both dispatched an alert, 5 s apart.
C19_Witness ==
    /\ Overlapped
    /\ Len(alerts) = 2
    /\ alerts[2].t - alerts[1].t <= cooldownMs
    /\ alerts[2].t - alerts[1].t = 5000
    /\ latest.lastAlert = alerts[2].t

\* C20: the latest document changes only in the one update of a POST,
\* which writes the POST's s, r and t and its lastAlert together: the
\* POST's time when it dispatches an alert, the lastAlert it read
\* otherwise. So when POSTs do not overlap, lastAlert changes only in a
\* POST that dispatches an alert, and then equals the t of the same write.
C20_LastAlertWrittenWithLatest ==
    [][/\ latest' # latest =>
            \E i \in Slots : inflight[i].pc = "update" /\ inflight'[i].pc = "done"
       /\ \A i \in Slots :
            (inflight[i].pc = "update" /\ inflight'[i].pc = "done") =>
                /\ latest'.s = inflight[i].d.status
                /\ latest'.r = inflight[i].d.flow
                /\ latest'.t = inflight[i].d.entry.t
                /\ latest'.hasLastAlert
                /\ latest'.lastAlert =
                      IF alerts' # alerts THEN inflight[i].d.entry.t
                      ELSE inflight[i].prev.lastAlert
                /\ ~Overlapped =>
                      IF alerts' # alerts
                      THEN latest'.lastAlert = latest'.t
                      ELSE latest'.lastAlert = latest.lastAlert]_vars

\* C20, its case: a POST that dispatched no alert wrote its own t and
\* kept the lastAlert of the alert dispatched by the POST before it.
C20_Witness ==
    /\ ~Overlapped
    /\ \A i \in Slots : inflight[i].pc = "done"
    /\ Len(alerts) = 1
    /\ latest.lastAlert = alerts[1].t
    /\ latest.t > latest.lastAlert
    /\ latest.s = "DANGER"

\* C21: the history changes only in the insert or the delete of a POST that
\* appends; a POST whose append is throttled goes from reading the latest
\* document straight to its update and leaves the history as it is, also
\* when the history is over capacity.
C21_TrimOnlyAfterOwnAppend ==
    [][/\ history' # history =>
            \E i \in Slots :
                /\ inflight[i].d.save
                /\ \/ inflight[i].pc = "insert" /\ inflight'[i].pc = "count"
                   \/ inflight[i].pc = "delete" /\ inflight'[i].pc = "update"
       /\ \A i \in Slots :
            /\ (inflight[i].pc = "new" /\ inflight'[i].pc # "new"
                    /\ ~inflight'[i].d.save) =>
                  (inflight'[i].pc = "update" /\ history' = history)
            /\ (inflight[i].pc = "update" /\ inflight'[i].pc = "done"
                    /\ ~inflight[i].d.save) =>
                  history' = history]_vars

\* C21, its case: the history was one over capacity, a POST came within
\* the save interval and has answered, and the history is still the same
\* one over capacity.
C21_Witness ==
    /\ nposts = 1
    /\ inflight[1].pc = "done"
    /\ latest.t = clock
    /\ nextId = MAX_HISTORY_DOCS + 2
    /\ Cardinality(history) = MAX_HISTORY_DOCS + 1

\* C22: once the history holds MAX_HISTORY_DOCS documents, no interleaving
\* of POSTs takes it below MAX_HISTORY_DOCS: a trim deletes none of the
\* MAX_HISTORY_DOCS most recent.
C22_NeverBelowCapacity ==
    Cardinality(history) >= MAX_HISTORY_DOCS

\* C23 as stated: the lastAlert of the latest document never decreases,
\* however the POSTs are interleaved.
C23_LastAlertMonotone ==
    [][latest'.lastAlert >= latest.lastAlert]_vars

\* C23, amended: as long as no POST has begun while another was under way,
\* the lastAlert of the latest document never decreases.
C23_LastAlertMonotoneSequential ==
    [][~Overlapped' => latest'.lastAlert >= latest.lastAlert]_vars

\* C23, its case: two POSTs one after the other both dispatched an alert
\* and lastAlert went from 0 to the first's time and on to the second's.
C23_Witness ==
    /\ ~Overlapped
    /\ Len(alerts) = 2
    /\ alerts[1].t > 0
    /\ alerts[2].t > alerts[1].t
    /\ latest.lastAlert = alerts[2].t

\* C24: throttling never stops the history: after every accepted POST the
\* history holds an entry of the last SAVE_INTERVAL_MS, that is, a POST
\* that comes more than SAVE_INTERVAL_MS after the newest entry appends
\* one, even when every gap between POSTs is shorter than SAVE_INTERVAL_MS.
C24_HistoryNeverStops ==
    nposts > 0 =>
        \E x \in history : clock - x.t <= SAVE_INTERVAL_MS

\* What the handler would decide if the last accepted POST came again.
Again ==
    IF deployed = "store"
    THEN Decide(req.obj, clock, latest)
    ELSE DecideCached(req.obj, clock, latest, mem)

\* The last accepted POST, coming again, would be classified SAFE and
\* would leave the flow it is compared with as it found it.
StaysSafe ==
    /\ Again.status = "SAFE"
    /\ IF deployed = "store"
       THEN OrZero(Again.entry.r) = OrZero(latest.r)
       ELSE Again.mem.previousFlow = mem.previousFlow

\* C25 as stated, in the form a finite run decides: no POST that carries
\* rotations above SAFE_THRESHOLD leaves the handler where the same POST,
\* coming again, is classified SAFE and changes nothing it is compared
\* with (from there the same POST is classified SAFE forever).
C25_NoSafeForever ==
    (nposts > 0 /\ Posted.rotations > SAFE_THRESHOLD) => ~StaysSafe

\* C25, amended: every accepted POST that carries rotations of at least
\* SAFE_THRESHOLD + NOISE_THRESHOLD is classified DANGER.
C25_DangerFromNoiseMargin ==
    (nposts > 0 /\ Posted.rotations >= SAFE_THRESHOLD + NOISE_THRESHOLD)
        => req.status = "DANGER"

\* C25, its case: the stored flow was 120 and SAFE, the POST carried 122,
\* and it was classified DANGER.
C25_Witness ==
    /\ nposts > 1
    /\ req.prev.s = "SAFE"
    /\ req.prev.r = 120
    /\ Posted.rotations = 122
    /\ req.status = "DANGER"
    /\ latest.s = "DANGER"

====
